---- MODULE Spec2Model ----
(***************************************************************************)
(* Model of the HTTP request-head parser of package wildcat (http.go).     *)
(*                                                                         *)
(* A byte is a one-character string, a byte slice is a sequence of bytes,  *)
(* and indices are Go's (0-based).  An input buffer is a record            *)
(* [mem, len]: mem is the backing array (its length is cap(input)) and     *)
(* len is len(input).  A run-time panic of the Go program is the result    *)
(* "panic"; the parser is then left as the code left it.                   *)
(***************************************************************************)
EXTENDS Integers, Sequences, FiniteSets, TLC

VARIABLES
    hp,      \* the parser
    fresh,   \* the parser as it was constructed and subscribed, before first use
    todo,    \* the buffers the caller will still hand to Parse, in order
    done,    \* the buffers Parse was called with, in order
    last,    \* the last call that changed the parser
    before,  \* the value of last when Parse was last called
    ret,     \* what the last call returned
    wasReset \* Reset has been called

vars == <<hp, fresh, todo, done, last, before, ret, wasReset>>

-----------------------------------------------------------------------------
(* Bytes and byte slices *)

SP == " "
HT == "\t"
CR == "\r"
LF == "\n"
COLON == ":"

\* a nil slice, as opposed to an empty one
Nil == <<"nil">>

\* the bytes of a slice: a nil slice has none
B(x) == IF x = Nil THEN <<>> ELSE x

\* len(input), cap(input), input[i], input[lo:hi]
LenOf(input) == input.len
CapOf(input) == Len(input.mem)
At(input, i) == input.mem[i + 1]
Slice(input, lo, hi) == SubSeq(input.mem, lo + 1, hi)
SliceOK(input, lo, hi) == 0 <= lo /\ lo <= hi /\ hi <= CapOf(input)

UpperCase == <<"A","B","C","D","E","F","G","H","I","J","K","L","M",
               "N","O","P","Q","R","S","T","U","V","W","X","Y","Z">>
LowerCase == <<"a","b","c","d","e","f","g","h","i","j","k","l","m",
               "n","o","p","q","r","s","t","u","v","w","x","y","z">>

ToLower(c) ==
    IF \E k \in 1..26 : UpperCase[k] = c
    THEN LowerCase[CHOOSE k \in 1..26 : UpperCase[k] = c]
    ELSE c

\* bytes.Equal: nil and empty are equal
BytesEqual(a, b) == B(a) = B(b)

\* bytes.EqualFold on ASCII
BytesEqualFold(a, b) ==
    /\ Len(B(a)) = Len(B(b))
    /\ \A k \in 1..Len(B(a)) : ToLower(B(a)[k]) = ToLower(B(b)[k])

Digits == <<"0","1","2","3","4","5","6","7","8","9">>
IsDigit(c) == \E k \in 1..10 : Digits[k] = c
DigitVal(c) == (CHOOSE k \in 1..10 : Digits[k] = c) - 1

RECURSIVE ParseUint(_, _)
\* the decimal value of the digit string s, accumulated left to right
ParseUint(s, acc) ==
    IF s = <<>> THEN acc ELSE ParseUint(Tail(s), acc * 10 + DigitVal(Head(s)))

\* strconv.ParseInt(s, 10, 0): [v, err]; a syntax error yields 0.  (A range
\* error needs 19 digits or more; the values of the inputs below are shorter.)
ParseInt(s) ==
    LET neg  == s # <<>> /\ Head(s) = "-"
        sign == s # <<>> /\ Head(s) \in {"+", "-"}
        rest == IF sign THEN Tail(s) ELSE s
    IN  IF rest = <<>> \/ \E k \in 1..Len(rest) : ~IsDigit(rest[k])
        THEN [v |-> 0, err |-> TRUE]
        ELSE LET u == ParseUint(rest, 0)
             IN  [v |-> IF neg THEN -u ELSE u, err |-> FALSE]

-----------------------------------------------------------------------------
(* The parser *)

DefaultHeaderSlice == 4

\* the zero header{}
ZeroHeader == [Name |-> Nil, Value |-> Nil]

ZeroHeaders(n) == [k \in 1..n |-> ZeroHeader]

NewSizedHTTPParser(size) ==
    [ subscribeHeader    |-> <<>>,
      subscribeAllHeader |-> TRUE,
      Method             |-> Nil,
      Path               |-> Nil,
      Version            |-> Nil,
      Headers            |-> ZeroHeaders(size),
      TotalHeaders       |-> size,
      host               |-> Nil,
      hostRead           |-> FALSE,
      contentLength      |-> -1,
      contentLengthRead  |-> FALSE ]

NewHTTPParser == NewSizedHTTPParser(DefaultHeaderSlice)

cHost == <<"H","o","s","t">>
cContentLength == <<"C","o","n","t","e","n","t","-","L","e","n","g","t","h">>

eNextHeader == 0
eNextHeaderN == 1
eHeader == 2
eHeaderValueSpace == 3
eHeaderValue == 4
eHeaderValueN == 5
eMLHeaderStart == 6
eMLHeaderValue == 7

\* hp.addHeader(headerIndex, headerName, headerValue): [hp, ok]; ok is FALSE
\* when the store hp.Headers[headerIndex] is out of range
addHeader(p, headerIndex, headerName, headerValue) ==
    IF headerIndex < 0 \/ headerIndex >= Len(p.Headers)
    THEN [hp |-> p, ok |-> FALSE]
    ELSE LET stored == [p.Headers EXCEPT ![headerIndex + 1] =
                            [Name |-> headerName, Value |-> headerValue]]
         IN  IF headerIndex + 1 = p.TotalHeaders
             THEN [hp |-> [p EXCEPT
                       !.Headers = stored \o
                           ZeroHeaders(p.TotalHeaders + DefaultHeaderSlice - Len(stored)),
                       !.TotalHeaders = p.TotalHeaders + DefaultHeaderSlice],
                   ok |-> TRUE]
             ELSE [hp |-> [p EXCEPT !.Headers = stored], ok |-> TRUE]

Max(a, b) == IF a >= b THEN a ELSE b

RECURSIVE SubscribeLoop(_, _, _, _, _)
\* the range over hp.subscribeHeader of an allow-set parser (lines 208-215),
\* from the k-th name on: the first byte-equal name stores the header
SubscribeLoop(p, k, h, headerName, value) ==
    IF k > Len(p.subscribeHeader) THEN [hp |-> p, ok |-> TRUE]
    ELSE LET b == p.subscribeHeader[k]
         IN  IF Len(B(b)) = 0 THEN [hp |-> p, ok |-> FALSE]
             ELSE IF headerName[1] = b[1] /\ BytesEqual(headerName, b)
                  THEN addHeader(p, h, headerName, value)
                  ELSE SubscribeLoop(p, k + 1, h, headerName, value)

\* a completed header line (lines 198-216), the value ending at index i:
\* [hp, ok, rd]; rd is the highest index of input the stored value covers.
\* In the Content-Length branch the i of the slice input[start:i] is the
\* parsed integer, which the short declaration of line 199 declares
StoreHeader(p, input, start, i, h, headerName) ==
    IF Len(B(headerName)) = 0 THEN [hp |-> p, ok |-> FALSE, rd |-> -1]
    ELSE IF headerName[1] = "C" /\ BytesEqual(headerName, cContentLength)
    THEN LET parsed == ParseInt(Slice(input, start, i))
             p1 == IF ~parsed.err THEN [p EXCEPT !.contentLength = parsed.v] ELSE p
             p2 == [p1 EXCEPT !.contentLengthRead = TRUE]
         IN  IF ~SliceOK(input, start, parsed.v)
             THEN [hp |-> p2, ok |-> FALSE, rd |-> -1]
             ELSE LET a == addHeader(p2, h, headerName, Slice(input, start, parsed.v))
                  IN  [hp |-> a.hp, ok |-> a.ok, rd |-> parsed.v - 1]
    ELSE IF p.subscribeAllHeader
    THEN LET a == addHeader(p, h, headerName, Slice(input, start, i))
         IN  [hp |-> a.hp, ok |-> a.ok, rd |-> i - 1]
    ELSE LET a == SubscribeLoop(p, 1, h, headerName, Slice(input, start, i))
         IN  [hp |-> a.hp, ok |-> a.ok, rd |-> i - 1]

\* a completed continuation line (lines 242-249): [hp, ok]
FoldHeader(p, input, start, i, h) ==
    IF h - 1 < 0 \/ h - 1 >= Len(p.Headers) THEN [hp |-> p, ok |-> FALSE]
    ELSE LET cur == B(p.Headers[h].Value)
             newheader == cur \o <<SP>> \o Slice(input, start, i)
         IN  [hp |-> [p EXCEPT !.Headers[h].Value = newheader], ok |-> TRUE]

\* what the header scan yields: the parser as it is left, the returned offset
\* and error, and the highest index of input that was read (-1: none)
Return(p, n, err, read) == [hp |-> p, n |-> n, err |-> err, read |-> read]

RECURSIVE HeaderLoop(_, _, _, _, _, _, _, _)
\* the header scan (lines 156-253) from index i on
HeaderLoop(p, input, i, state, start, h, headerName, rd) ==
    IF i >= LenOf(input)
    THEN Return(p, 0, "ErrMissingData", Max(LenOf(input) - 1, rd))
    ELSE
    LET c == At(input, i)
        Go(st, s) == HeaderLoop(p, input, i + 1, st, s, h, headerName, rd)
    IN  CASE state = eNextHeader ->
               IF c = CR THEN Go(eNextHeaderN, start)
               ELSE IF c = LF THEN Return(p, i + 1, "nil", Max(i, rd))
               ELSE IF c \in {SP, HT} THEN Go(eMLHeaderStart, start)
               ELSE Go(eHeader, i)
          [] state = eNextHeaderN ->
               IF c # LF THEN Return(p, 0, "ErrBadProto", Max(i, rd))
               ELSE Return(p, i + 1, "nil", Max(i, rd))
          [] state = eHeader ->
               IF c = COLON
               THEN HeaderLoop(p, input, i + 1, eHeaderValueSpace, start, h,
                               Slice(input, start, i), rd)
               ELSE Go(eHeader, start)
          [] state = eHeaderValueSpace ->
               IF c \in {SP, HT} THEN Go(eHeaderValueSpace, start)
               ELSE Go(eHeaderValue, i)
          [] state = eHeaderValue ->
               IF c \notin {CR, LF} THEN Go(eHeaderValue, start)
               ELSE LET r == StoreHeader(p, input, start, i, h, headerName)
                    IN  IF ~r.ok THEN Return(r.hp, 0, "panic", Max(i, rd))
                        ELSE HeaderLoop(r.hp, input, i + 1,
                                        IF c = CR THEN eHeaderValueN ELSE eNextHeader,
                                        start, h + 1, headerName, Max(rd, r.rd))
          [] state = eHeaderValueN ->
               IF c # LF THEN Return(p, 0, "ErrBadProto", Max(i, rd))
               ELSE Go(eNextHeader, start)
          [] state = eMLHeaderStart ->
               IF c \in {SP, HT} THEN Go(eMLHeaderStart, start)
               ELSE Go(eMLHeaderValue, i)
          [] state = eMLHeaderValue ->
               IF c \notin {CR, LF} THEN Go(eMLHeaderValue, start)
               ELSE LET r == FoldHeader(p, input, start, i, h)
                    IN  IF ~r.ok THEN Return(r.hp, 0, "panic", Max(i, rd))
                        ELSE HeaderLoop(r.hp, input, i + 1,
                                        IF c = CR THEN eHeaderValueN ELSE eNextHeader,
                                        start, h, headerName, rd)

RECURSIVE ScanSepSpaceOnly(_, _)
\* ScanSep with a tab not taken for a separator
ScanSepSpaceOnly(input, i) ==
    IF i >= LenOf(input) THEN -1
    ELSE IF At(input, i) = SP THEN i
    ELSE ScanSepSpaceOnly(input, i + 1)

RECURSIVE ScanSep(_, _)
\* the loops of lines 82-90 and 101-109: the first index at or after i that
\* holds a space or a tab, -1 when the buffer ends first
ScanSep(input, i) ==
    IF i >= LenOf(input) THEN -1
    ELSE IF At(input, i) \in {SP, HT} THEN i
    ELSE ScanSep(input, i + 1)

RECURSIVE VersionLoop(_, _, _, _, _)
\* the loop of lines 119-142 from index i on: [hp, kind, headers]
VersionLoop(p, input, version, i, readN) ==
    IF i >= LenOf(input) THEN [hp |-> p, kind |-> "missing", headers |-> LenOf(input)]
    ELSE
    LET c == At(input, i)
    IN  IF ~readN
        THEN IF c = CR
             THEN VersionLoop([p EXCEPT !.Version = Slice(input, version, i)],
                              input, version, i + 1, TRUE)
             ELSE IF c = LF
             THEN [hp |-> [p EXCEPT !.Version = Slice(input, version, i)],
                   kind |-> "ok", headers |-> i + 1]
             ELSE VersionLoop(p, input, version, i + 1, FALSE)
        ELSE IF c # LF
             THEN [hp |-> p, kind |-> "bad", headers |-> i]
             ELSE [hp |-> p, kind |-> "ok", headers |-> i + 1]

\* the request line (lines 79-146): [hp, kind, headers]; headers is the index
\* at which the header scan starts when kind is "ok"
RequestLine(p, input) ==
    LET m == ScanSep(input, 0)
    IN  IF m = -1 THEN [hp |-> p, kind |-> "missing", headers |-> LenOf(input)]
        ELSE
        LET p1 == [p EXCEPT !.Method = Slice(input, 0, m)]
            path == m + 1
            q == ScanSep(input, path)
        IN  IF q = -1 THEN [hp |-> p1, kind |-> "missing", headers |-> LenOf(input)]
            ELSE VersionLoop([p1 EXCEPT !.Path = Slice(input, path, q)],
                             input, q + 1, q + 1, FALSE)

\* hp.Parse(input): [hp, n, err, read, headers]; headers is the index at which
\* the header scan started, -1 when Parse returned before it
Parse(p, input) ==
    LET l == RequestLine(p, input)
    IN  CASE l.kind = "missing" ->
               [hp |-> l.hp, n |-> 0, err |-> "ErrMissingData",
                read |-> LenOf(input) - 1, headers |-> -1]
          [] l.kind = "bad" ->
               [hp |-> l.hp, n |-> 0, err |-> "Context(ErrBadProto)",
                read |-> l.headers, headers |-> -1]
          [] l.kind = "ok" ->
               LET r == HeaderLoop(l.hp, input, l.headers, eNextHeader, l.headers, 0, Nil, -1)
               IN  [hp |-> r.hp, n |-> r.n, err |-> r.err,
                    read |-> r.read, headers |-> l.headers]

\* the kind of an error value: errors.Context wraps ErrBadProto and keeps its kind
ErrKind(err) ==
    CASE err = "nil" -> "none"
      [] err = "ErrMissingData" -> "MissingData"
      [] err \in {"ErrBadProto", "Context(ErrBadProto)"} -> "BadProtocol"
      [] err = "panic" -> "panic"

\* hp.Reset(): the range of lines 267-270 assigns to a copy of each element
\* and changes no entry of hp.Headers; the table is cut to
\* len(subscribeHeader)+1 entries and TotalHeaders is left as it was
Reset(p) ==
    LET floor == Len(p.subscribeHeader) + 1
    IN  [p EXCEPT !.hostRead = FALSE,
                  !.contentLengthRead = FALSE,
                  !.contentLength = -1,
                  !.Headers = IF Len(p.Headers) > floor
                              THEN SubSeq(p.Headers, 1, floor)
                              ELSE p.Headers]

SubscribeAllHeaderOp(p, sub) == [p EXCEPT !.subscribeAllHeader = sub]

SubscribeHeaderOp(p, name) ==
    [p EXCEPT !.subscribeHeader = Append(p.subscribeHeader, name)]

\* the indices (1-based) of the table entries whose name is byte-equal to
\* name, resp. equal to it under case folding
ExactMatches(p, name) ==
    {k \in 1..Len(p.Headers) : BytesEqual(p.Headers[k].Name, name)}
FoldMatches(p, name) ==
    {k \in 1..Len(p.Headers) : BytesEqualFold(p.Headers[k].Name, name)}

Min(S) == CHOOSE k \in S : \A j \in S : k <= j

\* FindHeader without the byte-equal pass
FindHeaderFoldOnly(p, name) ==
    IF FoldMatches(p, name) # {} THEN p.Headers[Min(FoldMatches(p, name))].Value
    ELSE Nil

\* hp.FindHeader(name)
FindHeader(p, name) ==
    IF ExactMatches(p, name) # {} THEN p.Headers[Min(ExactMatches(p, name))].Value
    ELSE IF FoldMatches(p, name) # {} THEN p.Headers[Min(FoldMatches(p, name))].Value
    ELSE Nil

RECURSIVE CollectFold(_, _, _)
\* the loop of lines 308-312 from the k-th entry on
CollectFold(p, name, k) ==
    IF k > Len(p.Headers) THEN <<>>
    ELSE IF BytesEqualFold(p.Headers[k].Name, name)
         THEN <<p.Headers[k].Value>> \o CollectFold(p, name, k + 1)
         ELSE CollectFold(p, name, k + 1)

\* hp.FindAllHeaders(name); the empty sequence is the nil result
FindAllHeaders(p, name) == CollectFold(p, name, 1)

\* hp.Host(): [hp, v]
Host(p) ==
    IF p.hostRead THEN [hp |-> p, v |-> p.host]
    ELSE LET found == FindHeader(p, cHost)
         IN  [hp |-> [p EXCEPT !.hostRead = TRUE, !.host = found], v |-> found]

\* hp.ContentLength(): [hp, v]
ContentLength(p) ==
    IF p.contentLengthRead THEN [hp |-> p, v |-> p.contentLength]
    ELSE LET header == FindHeader(p, cContentLength)
             parsed == ParseInt(B(header))
             p1 == IF header # Nil /\ ~parsed.err
                   THEN [p EXCEPT !.contentLength = parsed.v]
                   ELSE p
         IN  [hp |-> [p1 EXCEPT !.contentLengthRead = TRUE], v |-> p1.contentLength]

-----------------------------------------------------------------------------
(* The buffers the caller hands to Parse *)

MaxHeaderLines == 2
MaxSize == 1
MaxSubscribed == 1

CRLF == <<CR, LF>>
Terminators == {CRLF, <<LF>>}

GET == <<"G","E","T">>

\* a request line: method, separator, path, separator, version
ReqLine(m, s1, p, s2, v) == m \o s1 \o p \o s2 \o v
StdReqLine == ReqLine(GET, <<SP>>, <<"/">>, <<SP>>, <<"H">>)

\* header lines "name:" optional-whitespace value, and continuation lines
\* whitespace value; kind tells them apart
HeaderLine(name, ows, value) ==
    [kind |-> "header", name |-> name, ows |-> ows, value |-> value]
ContLine(ws, value) ==
    [kind |-> "cont", name |-> <<>>, ows |-> ws, value |-> value]
LineBytes(l) ==
    IF l.kind = "header" THEN l.name \o <<COLON>> \o l.ows \o l.value
    ELSE l.ows \o l.value

hHost == HeaderLine(cHost, <<SP>>, <<"a">>)
hX == HeaderLine(<<"X">>, <<>>, <<"b">>)
hXEmpty == HeaderLine(<<"X">>, <<>>, <<>>)
hCL27 == HeaderLine(cContentLength, <<SP>>, <<"2","7">>)
hCL5 == HeaderLine(cContentLength, <<SP>>, <<"5">>)
hCLx == HeaderLine(cContentLength, <<SP>>, <<"x">>)
cB == ContLine(<<HT>>, <<"b">>)
cEmpty == ContLine(<<SP>>, <<>>)

\* Host and Content-Length in lower case, and a second Content-Length
chost == <<"h","o","s","t">>
hhost == HeaderLine(chost, <<>>, <<"b">>)
hcl5 == HeaderLine(<<"c","o","n","t","e","n","t","-","l","e","n","g","t","h">>, <<SP>>, <<"5">>)
hCL45 == HeaderLine(cContentLength, <<SP>>, <<"4","5">>)
hHostEmpty == HeaderLine(cHost, <<>>, <<>>)

HeaderLines == {hHost, hX, hCL27, hCLx}
ContLines == {cB}

\* the sequences of at most n elements of S
SeqsUpTo(S, n) == UNION {[1..k -> S] : k \in 0..n}

\* the header blocks: every block of at most MaxHeaderLines of the lines
\* above, and some blocks with an empty value, an empty continuation, the
\* Content-Length of a five-byte body, names in two letter cases, two
\* Content-Length lines, or more lines than two growth steps of a small table
LineBlocks ==
    SeqsUpTo(HeaderLines \cup ContLines, MaxHeaderLines)
    \cup {<<hXEmpty>>, <<hXEmpty, hHost>>, <<hX, cEmpty>>, <<hCL5>>, <<hHost, hCL5>>}
    \cup {<<hhost>>, <<hhost, hHost>>, <<hHost, hhost>>, <<hcl5>>, <<hCL27, hCL45>>}
    \cup {<<hX, hHost, hhost, hX, hHost, hhost>>, <<hHostEmpty>>, <<hHost, hHostEmpty>>}

\* a header block is well formed when no continuation line comes first
WellFormedBlock(ls) == ls = <<>> \/ ls[1].kind = "header"

RECURSIVE Join(_, _)
Join(ls, t) == IF ls = <<>> THEN <<>> ELSE LineBytes(Head(ls)) \o t \o Join(Tail(ls), t)

\* the bytes of a head: request line, lines and blank line, each ended by t,
\* then the body
HeadBytes(rl, ls, t, body) == rl \o t \o Join(ls, t) \o t \o body

\* a buffer whose capacity is its length, and one with spare capacity
Buf(b) == [mem |-> b, len |-> Len(b)]
BufCap(b, spare) == [mem |-> b \o spare, len |-> Len(b)]

\* well-formed heads whose lines all end in CR LF
CRLFHeads ==
    {Buf(HeadBytes(StdReqLine, ls, CRLF, <<>>)) : ls \in {b \in LineBlocks : WellFormedBlock(b)}}
    \cup {Buf(HeadBytes(StdReqLine, ls, CRLF, <<"h","i">>)) : ls \in {<<>>, <<hHost>>, <<hX, cB>>}}


\* heads whose lines all end in a bare LF
LFHeads ==
    {Buf(HeadBytes(StdReqLine, ls, <<LF>>, <<>>)) :
        ls \in {<<>>, <<hHost>>, <<hX>>, <<hXEmpty>>, <<hXEmpty, hHost>>, <<hX, cB>>, <<hX, cEmpty>>}}

Separators == {<<SP>>, <<HT>>}

\* heads over the forms of the request line
ReqLineHeads ==
    {Buf(HeadBytes(ReqLine(GET, s1, <<"/">>, s2, v), ls, t, <<>>)) :
        s1 \in Separators, s2 \in Separators, v \in {<<"H">>, <<>>, <<"H", SP, "V">>},
        t \in Terminators, ls \in {<<>>, <<hX>>}}
    \cup {Buf(HeadBytes(ReqLine(m, <<SP>>, q, <<SP>>, <<"H">>), <<hX>>, CRLF, <<>>)) :
        m \in {GET, <<>>}, q \in {<<"/">>, <<>>}}

\* a head whose Content-Length value lies beyond len(input) in a buffer with
\* spare capacity
hCL33 == HeaderLine(cContentLength, <<SP>>, <<"3","3">>)
SpareHeads ==
    {BufCap(HeadBytes(StdReqLine, <<hCL33>>, CRLF, <<>>), spare) : spare \in {<<>>, <<"?","?">>}}

\* the index just after the LF of the first blank line of b; 0 when b has none
RECURSIVE BlankLineEnd(_, _, _)
BlankLineEnd(b, k, atLineStart) ==
    IF k > Len(b) THEN 0
    ELSE IF atLineStart /\ b[k] = LF THEN k
    ELSE IF atLineStart /\ b[k] = CR /\ k < Len(b) /\ b[k + 1] = LF THEN k + 1
    ELSE BlankLineEnd(b, k + 1, b[k] = LF)

\* the strict prefixes that stop before the LF of the terminating blank line
PrefixesOf(b) == {Buf(SubSeq(b, 1, n)) : n \in 0..(BlankLineEnd(b, 1, FALSE) - 1)}

PrefixBases ==
    { HeadBytes(StdReqLine, <<hX, cB, hHost>>, CRLF, <<>>),
      HeadBytes(StdReqLine, <<hCL5>>, CRLF, <<>>) }

Prefixes == UNION {PrefixesOf(b) : b \in PrefixBases}

\* heads in which one CR is followed by the byte Z instead of LF
CRZ == <<CR, "Z">>
BadVersionCR == Buf(StdReqLine \o CRZ \o CRLF \o CRLF)
BadValueCR == Buf(StdReqLine \o CRLF \o LineBytes(hX) \o CRZ \o CRLF \o CRLF)
BadContCR == Buf(StdReqLine \o CRLF \o LineBytes(hX) \o CRLF \o LineBytes(cB) \o CRZ \o CRLF \o CRLF)
BadBlankCR == Buf(StdReqLine \o CRLF \o LineBytes(hX) \o CRLF \o CRZ \o CRLF \o CRLF)
BadEmptyValueCR == Buf(StdReqLine \o CRLF \o LineBytes(hXEmpty) \o CRZ \o CRLF \o CRLF)
BadEmptyValueSpCR ==
    Buf(StdReqLine \o CRLF \o LineBytes(HeaderLine(<<"X">>, <<SP>>, <<>>)) \o CRZ \o CRLF \o CRLF)
BadEmptyContCR ==
    Buf(StdReqLine \o CRLF \o LineBytes(hX) \o CRLF \o LineBytes(cEmpty) \o CRZ \o CRLF \o CRLF)

BadCRHeads == {BadVersionCR, BadValueCR, BadContCR, BadBlankCR,
               BadEmptyValueCR, BadEmptyValueSpCR, BadEmptyContCR}

\* what a caller feeds one parser, in order: one buffer, or two
FirstHeads == {Buf(HeadBytes(StdReqLine, ls, CRLF, <<>>)) : ls \in {<<hHost>>, <<hCL27, hHost>>}}
SecondHeads ==
    {Buf(HeadBytes(StdReqLine, ls, CRLF, <<>>)) : ls \in {<<>>, <<hX>>, <<hX, hHost>>}}

\* heads whose header section starts with a continuation line
ContFirstHeads == {Buf(HeadBytes(StdReqLine, ls, CRLF, <<>>)) : ls \in {<<cB>>, <<cB, hX>>}}

\* a prefix that the caller parses first, and the whole head it retries
\* with; the prefixes end inside the method, after the request line, and
\* inside or after each part of a header line, a continuation line and the
\* blank line
RetryBases ==
    { [b |-> HeadBytes(StdReqLine, <<hX, cB, hHost>>, CRLF, <<>>),
       cuts |-> {3, 9, 11, 12, 13, 14, 15, 16, 17, 22, 26, 28}],
      [b |-> HeadBytes(StdReqLine, <<hCL27>>, CRLF, <<>>),
       cuts |-> {27, 28, 30}],
      [b |-> HeadBytes(StdReqLine, <<hCL5>>, CRLF, <<>>),
       cuts |-> {26}] }
Retries == UNION {{<<Buf(SubSeq(r.b, 1, n)), Buf(r.b)>> : n \in r.cuts} : r \in RetryBases}

Singles ==
    CRLFHeads \cup LFHeads \cup ReqLineHeads \cup SpareHeads \cup Prefixes \cup BadCRHeads
    \cup ContFirstHeads

Scripts ==
    {<<x>> : x \in Singles} \cup {<<a, b>> : a \in FirstHeads, b \in SecondHeads}
    \cup Retries

SubscribeNames == {cHost}
LookupNames == {cHost, chost}

\* the names the properties look up
ProbeNames == {cHost, <<"X">>, cContentLength}

-----------------------------------------------------------------------------
(* The state machine: one parser, used by one caller.  The caller sets the   *)
(* subscription before first use, reads the fields of a request only once   *)
(* Parse has been called, and makes no call after a panic.                  *)

Crashed == ret.op = "Parse" /\ ret.err = "panic"

\* there is a request to read fields of
Readable == ~Crashed /\ done # <<>>

Init ==
    /\ hp \in {NewHTTPParser} \cup {NewSizedHTTPParser(size) : size \in 1..MaxSize}
    /\ fresh = hp
    /\ todo \in Scripts
    /\ done = <<>>
    /\ last = "New"
    /\ before = "New"
    /\ ret = [op |-> "New"]
    /\ wasReset = FALSE

\* the subscription is set before first use
DoSubscribeAllHeader ==
    /\ last \in {"New", "Subscribe"}
    /\ \E sub \in BOOLEAN : hp' = SubscribeAllHeaderOp(hp, sub)
    /\ fresh' = hp'
    /\ last' = "Subscribe"
    /\ ret' = [op |-> "SubscribeAllHeader"]
    /\ UNCHANGED <<todo, done, before, wasReset>>

DoSubscribeHeader ==
    /\ last \in {"New", "Subscribe"}
    /\ Len(hp.subscribeHeader) < MaxSubscribed
    /\ \E name \in SubscribeNames : hp' = SubscribeHeaderOp(hp, name)
    /\ fresh' = hp'
    /\ last' = "Subscribe"
    /\ ret' = [op |-> "SubscribeHeader"]
    /\ UNCHANGED <<todo, done, before, wasReset>>

DoParse ==
    /\ ~Crashed
    /\ todo # <<>>
    /\ LET r == Parse(hp, Head(todo))
       IN  /\ hp' = r.hp
           /\ ret' = [op |-> "Parse", n |-> r.n, err |-> r.err,
                       read |-> r.read, headers |-> r.headers]
    /\ todo' = Tail(todo)
    /\ fresh' = fresh
    /\ done' = Append(done, Head(todo))
    /\ before' = last
    /\ last' = "Parse"
    /\ wasReset' = wasReset

DoReset ==
    /\ ~Crashed
    /\ hp' = Reset(hp)
    /\ last' = "Reset"
    /\ ret' = [op |-> "Reset"]
    /\ wasReset' = TRUE
    /\ UNCHANGED <<fresh, todo, done, before>>

DoHost ==
    /\ Readable
    /\ hp' = Host(hp).hp
    /\ ret' = [op |-> "Host", v |-> Host(hp).v]
    /\ last' = "Host"
    /\ UNCHANGED <<fresh, todo, done, before, wasReset>>

DoContentLength ==
    /\ Readable
    /\ hp' = ContentLength(hp).hp
    /\ ret' = [op |-> "ContentLength", v |-> ContentLength(hp).v]
    /\ last' = "ContentLength"
    /\ UNCHANGED <<fresh, todo, done, before, wasReset>>

DoFindHeader ==
    /\ Readable
    /\ \E name \in LookupNames :
          ret' = [op |-> "FindHeader", name |-> name, v |-> FindHeader(hp, name)]
    /\ UNCHANGED <<hp, fresh, todo, done, last, before, wasReset>>

DoFindAllHeaders ==
    /\ Readable
    /\ \E name \in LookupNames :
          ret' = [op |-> "FindAllHeaders", name |-> name, v |-> FindAllHeaders(hp, name)]
    /\ UNCHANGED <<hp, fresh, todo, done, last, before, wasReset>>

Next ==
    \/ DoSubscribeAllHeader
    \/ DoSubscribeHeader
    \/ DoParse
    \/ DoReset
    \/ DoHost
    \/ DoContentLength
    \/ DoFindHeader
    \/ DoFindAllHeaders

Spec == Init /\ [][Next]_vars

-----------------------------------------------------------------------------
(* Properties *)

\* the buffer of the last Parse call, and its bytes
Input == done[Len(done)]
InputBytes == SubSeq(Input.mem, 1, Input.len)

\* Parse has just returned
JustParsed == ret.op = "Parse"

\* the first Parse call of a parser
FirstParse == JustParsed /\ Len(done) = 1

\* the least index (0-based) at or after from at which b holds a byte of S;
\* -1 when there is none
FirstAt(b, from, S) ==
    LET hits == {k \in from..(Len(b) - 1) : b[k + 1] \in S}
    IN  IF hits = {} THEN -1 ELSE Min(hits)

\* C1: on a parser that was just constructed, Parse of a head made of a
\* request line, header lines and a blank line, each ended by CR LF, with or
\* without a body, returns a nil error and the index just after the LF of the
\* first blank line; that index is at most len(input) and no index at or
\* beyond len(input) is read.
C1_OffsetAfterBlankLine ==
    (FirstParse /\ before = "New" /\ Input \in CRLFHeads) =>
        /\ ret.err = "nil"
        /\ ret.n = BlankLineEnd(InputBytes, 1, FALSE)
        /\ ret.n <= Input.len
        /\ ret.read < Input.len

\* C2: Parse of a strict prefix of a well-formed head that stops before the
\* LF of the terminating blank line returns offset 0 with ErrMissingData and
\* does not fault.
C2_PrefixMissingData ==
    (JustParsed /\ Input \in Prefixes) =>
        /\ ret.n = 0
        /\ ret.err = "ErrMissingData"

\* C3: when a CR that ends the version line, a header value, a continuation
\* value or an empty value, or that starts the blank line, is followed by a
\* byte other than LF, Parse returns offset 0 with the bad-protocol error.
C3_BareCRBadProtocol ==
    (JustParsed /\ Input \in BadCRHeads) =>
        /\ ret.n = 0
        /\ ErrKind(ret.err) = "BadProtocol"

\* C4: after a successful Parse, Method is the bytes before the first space or
\* tab, Path the bytes between it and the next space or tab, Version the
\* bytes from there up to the CR of a CR LF or a bare LF, and the header scan
\* starts just after that LF.
C4_RequestLineTokens ==
    (JustParsed /\ ret.err = "nil") =>
        LET b == InputBytes
            k1 == FirstAt(b, 0, {SP, HT})
            k2 == FirstAt(b, k1 + 1, {SP, HT})
            k3 == FirstAt(b, k2 + 1, {CR, LF})
            lf == IF b[k3 + 1] = LF THEN k3 ELSE k3 + 1
        IN  /\ k1 >= 0 /\ k2 >= 0 /\ k3 >= 0
            /\ lf < Len(b) /\ b[lf + 1] = LF
            /\ hp.Method = SubSeq(b, 1, k1)
            /\ hp.Path = SubSeq(b, k1 + 2, k2)
            /\ hp.Version = SubSeq(b, k2 + 2, k3)
            /\ ret.headers = lf + 1

\* C4's case: a successful Parse of a request line whose separators are tabs
\* and that ends in CR LF
C4_Witness ==
    /\ JustParsed /\ ret.err = "nil"
    /\ Input.mem[4] = HT /\ Input.mem[6] = HT /\ Input.mem[8] = CR
    /\ hp.Method = GET /\ hp.Path = <<"/">> /\ hp.Version = <<"H">>
    /\ ret.headers = 9

\* the well-formed header blocks, and the head a block makes with terminator t
Blocks == {ls \in LineBlocks : WellFormedBlock(ls)}
HeadOf(ls, t) == Buf(HeadBytes(StdReqLine, ls, t, <<>>))

IsContentLength(l) == l.kind = "header" /\ l.name = cContentLength
HeaderCount(ls) == Cardinality({k \in 1..Len(ls) : ls[k].kind = "header"})
Front(ls) == SubSeq(ls, 1, Len(ls) - 1)

\* the named entries of the table, in table order
RECURSIVE Stored(_)
Stored(hs) ==
    IF hs = <<>> THEN <<>>
    ELSE IF Head(hs).Name = Nil THEN Stored(Tail(hs))
    ELSE <<Head(hs)>> \o Stored(Tail(hs))

\* heads that end in a continuation line: the head, the head without that
\* line, the slot (1-based) of the header line before it, and the bytes of
\* the continuation without leading whitespace and terminator
FoldCases ==
    {[buf |-> HeadOf(ls, t), base |-> HeadOf(Front(ls), t),
      slot |-> HeaderCount(ls), cont |-> ls[Len(ls)].value] :
        ls \in {b \in Blocks : Len(b) >= 2 /\ b[Len(b)].kind = "cont"},
        t \in Terminators}

\* C5: when a stored header line is followed by a line that starts with a
\* space or tab, the table has as many entries as without that line and
\* differs only in the value of the preceding header, which is its previous
\* value, one space, and the bytes of the continuation line without its
\* leading whitespace and its terminator.
C5_FoldAppendsToPrevious ==
    \A c \in FoldCases :
        (FirstParse /\ Input = c.buf) =>
            LET r0 == Parse(fresh, c.base)
            IN  (r0.err = "nil" /\ r0.hp.Headers[c.slot].Name # Nil) =>
                    hp.Headers = [r0.hp.Headers EXCEPT
                                    ![c.slot].Value = B(@) \o <<SP>> \o c.cont]

\* heads with exactly one Content-Length line, whose value is the decimal n
ContentLengthCases ==
    {[buf |-> HeadOf(ls, CRLF),
      n |-> ParseUint(ls[CHOOSE k \in 1..Len(ls) : IsContentLength(ls[k])].value, 0)] :
        ls \in {b \in Blocks :
                  /\ Cardinality({k \in 1..Len(b) : IsContentLength(b[k])}) = 1
                  /\ \A k \in 1..Len(b) :
                        IsContentLength(b[k]) =>
                            /\ b[k].value # <<>>
                            /\ \A j \in 1..Len(b[k].value) : IsDigit(b[k].value[j])}}

\* C6: for a head with a header named Content-Length of decimal value n, at
\* any position and in either subscription mode, Parse succeeds,
\* ContentLength() is n and the offset is the index of the first body byte.
C6_ContentLengthRead ==
    \A c \in ContentLengthCases :
        (FirstParse /\ Input = c.buf) =>
            /\ ret.err = "nil"
            /\ ret.n = BlankLineEnd(InputBytes, 1, FALSE)
            /\ ContentLength(hp).v = c.n

\* heads whose only Content-Length line has a value that is no integer
BadContentLengthCases ==
    {HeadOf(ls, CRLF) :
        ls \in {b \in Blocks :
                  /\ \E k \in 1..Len(b) : b[k] = hCLx
                  /\ \A k \in 1..Len(b) : IsContentLength(b[k]) => b[k] = hCLx}}

\* C7: when the value of the Content-Length header is no decimal integer,
\* Parse still returns the success offset, the header is stored with its
\* value bytes, and ContentLength() is -1.
C7_BadContentLengthStored ==
    (FirstParse /\ Input \in BadContentLengthCases) =>
        /\ ret.err = "nil"
        /\ ret.n = BlankLineEnd(InputBytes, 1, FALSE)
        /\ \E k \in 1..Len(hp.Headers) :
              hp.Headers[k] = [Name |-> cContentLength, Value |-> hCLx.value]
        /\ ContentLength(hp).v = -1

\* the well-formed CR LF heads with their lines
HeadCases == {[buf |-> HeadOf(ls, CRLF), ls |-> ls] : ls \in Blocks}

Subscribed(p) == {p.subscribeHeader[k] : k \in 1..Len(p.subscribeHeader)}

\* C8: with SubscribeAllHeader(false) and the allow-set S, after Parse on a
\* fresh parser every named entry has a name in S or is Content-Length, every
\* header of the input with a name in S is stored, and the lookups of a name
\* outside S other than Content-Length find nothing.
C8_AllowSetFilter ==
    \A c \in HeadCases :
        (FirstParse /\ ~fresh.subscribeAllHeader /\ Input = c.buf) =>
            /\ \A k \in 1..Len(hp.Headers) :
                  hp.Headers[k].Name # Nil =>
                      hp.Headers[k].Name \in Subscribed(hp) \cup {cContentLength}
            /\ \A j \in 1..Len(c.ls) :
                  (c.ls[j].kind = "header" /\ c.ls[j].name \in Subscribed(hp)) =>
                      \E k \in 1..Len(hp.Headers) : hp.Headers[k].Name = c.ls[j].name
            /\ \A name \in ProbeNames \ (Subscribed(hp) \cup {cContentLength}) :
                  /\ FindHeader(hp, name) = Nil
                  /\ FindAllHeaders(hp, name) = <<>>

\* Parse(A), any accessor calls, Reset(), Parse(B) have just been done
ReusedAfterReset == JustParsed /\ Len(done) = 2 /\ before = "Reset"

\* C9: after Parse(A), accessor calls, Reset() and Parse(B), Host() and
\* ContentLength() are what they are after Parse(B) on a new parser.
C9_ResetDropsDerivedFields ==
    (ReusedAfterReset /\ ret.err = "nil") =>
        LET f == Parse(fresh, Input)
        IN  /\ Host(hp).v = Host(f.hp).v
            /\ ContentLength(hp).v = ContentLength(f.hp).v

\* C10: Parse(A), Reset(), Parse(B) faults on no table access and yields the
\* return value, Method, Path, Version and stored (name, value) sequence of
\* Parse(B) on a new parser.
C10_ResetReadyForReuse ==
    ReusedAfterReset =>
        LET f == Parse(fresh, Input)
        IN  /\ ret.err # "panic"
            /\ ret.n = f.n /\ ret.err = f.err
            /\ hp.Method = f.hp.Method /\ hp.Path = f.hp.Path
            /\ hp.Version = f.hp.Version
            /\ Stored(hp.Headers) = Stored(f.hp.Headers)

\* the blocks made of header lines only
HeaderBlocks == {ls \in Blocks : \A k \in 1..Len(ls) : ls[k].kind = "header"}

\* the first Parse call of a parser that was constructed, had its subscription
\* set, and was not used otherwise
ParsedFresh == FirstParse /\ before \in {"New", "Subscribe"}

\* C11: in accept-all mode on a parser constructed with capacity c >= 1, Parse
\* of a request with n headers, n > c and n beyond several growth steps
\* included, leaves in slots 0..n-1 the n (name, value) pairs of the input in
\* document order.
C11_GrowthKeepsHeaders ==
    \A ls \in HeaderBlocks :
        (ParsedFresh /\ fresh.subscribeAllHeader /\ Input = HeadOf(ls, CRLF)) =>
            /\ ret.err = "nil"
            /\ Len(hp.Headers) >= Len(ls)
            /\ \A k \in 1..Len(ls) :
                  hp.Headers[k] = [Name |-> ls[k].name, Value |-> ls[k].value]

\* the slots (1-based) whose name is the byte string name, resp. is name up to
\* the case of its letters
SlotsNamed(name) == {k \in 1..Len(hp.Headers) : hp.Headers[k].Name = name}
SlotsNamedFold(name) ==
    {k \in 1..Len(hp.Headers) :
        /\ hp.Headers[k].Name # Nil
        /\ Len(hp.Headers[k].Name) = Len(name)
        /\ \A j \in 1..Len(name) : ToLower(hp.Headers[k].Name[j]) = ToLower(name[j])}

\* C12: FindHeader(name) returns the value of the first entry whose name is
\* byte-equal to name when there is one, also when an earlier entry matches
\* up to letter case; else the value of the first entry that matches up to
\* letter case; else not-found.
C12_FindHeaderExactThenFold ==
    ret.op = "FindHeader" =>
        ret.v = IF SlotsNamed(ret.name) # {}
                THEN hp.Headers[Min(SlotsNamed(ret.name))].Value
                ELSE IF SlotsNamedFold(ret.name) # {}
                THEN hp.Headers[Min(SlotsNamedFold(ret.name))].Value
                ELSE Nil

\* C12's case: FindHeader("Host") has returned the value of the second entry,
\* Host, the first entry being host
C12_Witness ==
    /\ ret.op = "FindHeader" /\ ret.name = cHost /\ ret.v = hHost.value
    /\ Len(hp.Headers) >= 2
    /\ hp.Headers[1] = [Name |-> chost, Value |-> hhost.value]
    /\ hp.Headers[2] = [Name |-> cHost, Value |-> hHost.value]

\* the lines of ls whose name is in names, in order
RECURSIVE SelectLines(_, _)
SelectLines(ls, names) ==
    IF ls = <<>> THEN <<>>
    ELSE IF Head(ls).name \in names THEN <<Head(ls)>> \o SelectLines(Tail(ls), names)
    ELSE SelectLines(Tail(ls), names)

\* the names of the lines of ls that equal name up to letter case
FoldNames(ls, name) ==
    {ls[k].name : k \in {j \in 1..Len(ls) :
        /\ Len(ls[j].name) = Len(name)
        /\ \A i \in 1..Len(name) : ToLower(ls[j].name[i]) = ToLower(name[i])}}

\* C13: after a single Parse on a fresh parser, FindAllHeaders(name) returns
\* the values of the headers of the request whose names equal name up to
\* letter case, one per header, in request order, and nothing else.
C13_FindAllHeadersOfRequest ==
    \A ls \in HeaderBlocks :
        ( /\ ret.op = "FindAllHeaders" /\ Len(done) = 1 /\ last = "Parse"
          /\ before \in {"New", "Subscribe"} /\ fresh.subscribeAllHeader
          /\ Input = HeadOf(ls, CRLF) ) =>
            LET lines == SelectLines(ls, FoldNames(ls, ret.name))
            IN  ret.v = [k \in 1..Len(lines) |-> lines[k].value]

\* the header blocks without a Content-Length line
PlainBlocks == {ls \in HeaderBlocks : \A k \in 1..Len(ls) : ~IsContentLength(ls[k])}

\* C14: in allow-set mode a rejected header takes no slot and does not move
\* the index of the next accepted header: the k-th accepted header is stored
\* at slot k-1 and Parse writes nowhere outside the table.
C14_RejectedTakesNoSlot ==
    \A ls \in PlainBlocks :
        (ParsedFresh /\ ~fresh.subscribeAllHeader /\ Input = HeadOf(ls, CRLF)) =>
            LET acc == SelectLines(ls, Subscribed(hp))
            IN  /\ ret.err # "panic"
                /\ Len(hp.Headers) >= Len(acc)
                /\ \A k \in 1..Len(hp.Headers) :
                      hp.Headers[k].Name = IF k <= Len(acc) THEN acc[k].name ELSE Nil

\* Parse(P) and then Parse(B) have been called on a parser that had not been
\* used, P a prefix of the head B, with no Reset
Retried ==
    /\ JustParsed /\ Len(done) = 2 /\ ~wasReset
    /\ <<done[1], done[2]>> \in Retries

\* C15: when Parse(P) returned ErrMissingData, Parse(B) on the same parser
\* without Reset gives the offset, Method, Path, Version, header table and
\* table capacity of a single Parse(B) on a fresh parser.
C15_RetryFromScratch ==
    (Retried /\ Parse(fresh, done[1]).err = "ErrMissingData") =>
        LET f == Parse(fresh, Input)
        IN  /\ ret.n = f.n /\ ret.err = f.err
            /\ hp.Method = f.hp.Method /\ hp.Path = f.hp.Path
            /\ hp.Version = f.hp.Version
            /\ hp.Headers = f.hp.Headers
            /\ hp.TotalHeaders = f.hp.TotalHeaders

\* the heads of header lines only, with either line terminator, and their lines
PlainCases == {[buf |-> HeadOf(ls, t), ls |-> ls] : ls \in PlainBlocks, t \in Terminators}

\* C16: the stored value of a header line is the bytes after the colon and
\* its run of spaces and tabs, up to the line terminator; it holds no CR or
\* LF and does not reach into the next line, also when it is empty.
C16_ValueStopsAtTerminator ==
    \A c \in PlainCases :
        (ParsedFresh /\ fresh.subscribeAllHeader /\ Input = c.buf) =>
            /\ Len(hp.Headers) >= Len(c.ls)
            /\ \A k \in 1..Len(c.ls) :
                  /\ hp.Headers[k].Name = c.ls[k].name
                  /\ hp.Headers[k].Value = c.ls[k].value
            /\ \A k \in 1..Len(hp.Headers) :
                  \A j \in 1..Len(B(hp.Headers[k].Value)) :
                      hp.Headers[k].Value[j] \notin {CR, LF}

\* C17: in every state reached by construction with size >= 1 and then Parse
\* and Reset calls, TotalHeaders is the length of hp.Headers; Parse stores no
\* more headers than that and does not lower TotalHeaders.
C17_CapacityIsTableLength ==
    /\ hp.TotalHeaders = Len(hp.Headers)
    /\ Len(Stored(hp.Headers)) <= hp.TotalHeaders
    /\ hp.TotalHeaders >= fresh.TotalHeaders

\* C18: within one cycle each derived field is computed at most once: once
\* hostRead (resp. contentLengthRead) is set, no step but Reset clears it or
\* changes the cached value, and Host() (resp. ContentLength()) returns the
\* cached value; Host(), ContentLength(), FindHeader and FindAllHeaders
\* change neither the table nor Method, Path and Version.  (A Parse that
\* panics is left aside for the cached Content-Length.)
C18_DerivedFieldsOncePerCycle ==
    [][ /\ (hp.hostRead /\ ret'.op # "Reset") =>
              /\ hp'.hostRead /\ hp'.host = hp.host
              /\ ret'.op = "Host" => ret'.v = hp.host
        /\ (hp.contentLengthRead /\ ret'.op # "Reset" /\ ~Crashed') =>
              /\ hp'.contentLengthRead /\ hp'.contentLength = hp.contentLength
              /\ ret'.op = "ContentLength" => ret'.v = hp.contentLength
        /\ (~hp.hostRead /\ hp'.hostRead) => ret'.op = "Host"
        /\ ret'.op \in {"Host", "ContentLength", "FindHeader", "FindAllHeaders"} =>
              /\ hp'.Headers = hp.Headers /\ hp'.TotalHeaders = hp.TotalHeaders
              /\ hp'.Method = hp.Method /\ hp'.Path = hp.Path
              /\ hp'.Version = hp.Version
      ]_vars

\* C19: after a successful Parse on a fresh parser ContentLength() is the
\* base-10 value of FindHeader("Content-Length") when that is a valid
\* integer, and -1 otherwise, also with several Content-Length headers and
\* with the name in another letter case, in both subscription modes.  (Stated
\* for buffers without spare capacity.)
C19_CachedAgreesWithLookup ==
    (ParsedFresh /\ ret.err = "nil" /\ CapOf(Input) = LenOf(Input)) =>
        LET header == FindHeader(hp, cContentLength)
            parsed == ParseInt(B(header))
        IN  ContentLength(hp).v = IF header # Nil /\ ~parsed.err THEN parsed.v ELSE -1

\* C20: when Parse completes a continuation line, the slot it rewrites
\* exists and holds the header stored from the preceding header line of the
\* same Parse; with the continuation as the first line of the header section,
\* or after a header the subscription rejected, Parse neither indexes outside
\* the table nor makes or alters an entry of no accepted header.
C20_FoldNeedsStoredHeader ==
    \A ls \in {<<cB>>, <<cB, hX>>, <<hX, cB>>} :
        ( /\ ParsedFresh /\ Input = HeadOf(ls, CRLF)
          /\ (ls[1].kind = "header" => ~fresh.subscribeAllHeader) ) =>
            /\ ret.err # "panic"
            /\ \A k \in 1..Len(hp.Headers) :
                  hp.Headers[k].Name = Nil => hp.Headers[k].Value = Nil

====
